---- MODULE Spec2Model ----
(***************************************************************************)
(* The realtime voice-agent session of meet-ai: the useRealtimeAgent hook  *)
(* (client/src/hooks/use-realtime-agent.ts).  The hook's React state and   *)
(* refs are the variables; the browser objects the refs point to (peer     *)
(* connections, data channels, media streams, recorders) are modelled by   *)
(* their observable state, indexed by the connect() invocation that        *)
(* created them.  Each action is one run-to-completion step of the event   *)
(* loop: a call of the hook's API, the resumption of a suspended connect() *)
(* or a browser callback.                                                  *)
(***************************************************************************)
EXTENDS Integers, Sequences, FiniteSets, TLC

\* ---- bounds ----
MaxConnects == 2    \* connect() invocations that pass the guard
MaxMessages == 2    \* turns ever created (messageIdCounter)
MaxText == 1        \* deltas accumulated in currentAssistantTextRef
MaxRecorders == 2   \* MediaRecorder objects ever created
MaxChunks == 1      \* chunks held in recordedChunksRef
MaxEvents == 1      \* meeting/call.ended events sent to the job queue

Null == 0            \* a ref holding null (object identities start at 1)
None == "null"       \* a null string-valued state field
Ids == 1..MaxConnects
RecIds == 1..MaxRecorders

VARIABLES
  \* React state (RealtimeAgentState)
  isConnected, isConnecting, isListening, isSpeaking, isRecording,
  error, messages, connectionState,
  \* refs
  peerConnectionRef, dataChannelRef, audioElementRef, localStreamRef,
  remoteStreamRef, mediaRecorderRef, audioContextRef,
  currentAssistantMessageIdRef, currentAssistantTextRef, messageIdCounter,
  \* browser objects
  pcState,        \* RTCPeerConnection.connectionState of each created transport
  tracked,        \* transports whose remote track was delivered (ontrack fired)
  dcState,        \* RTCDataChannel.readyState
  streamState,    \* local MediaStream tracks: "none" | "live" | "stopped"
  recState,       \* MediaRecorder.state: "none" | "recording" | "inactive"
  recStopping,    \* recorders whose stop() was called and whose stop event is queued
  recOnstop,      \* recorders whose onstop handler was installed by stopRecording()
  recordedChunksRef,
  recDelivered,   \* non-empty chunks each recorder delivered and has not yet handed to its stop event
  \* control
  task,           \* position of each connect() invocation
  nextId,         \* next invocation / object identity
  nextRec,        \* next recorder identity
  \* observation
  lastCall,       \* the step that ran last
  trace,          \* the external calls that step made, in program order
  returned,       \* what the last API call returned / the last promise resolved with
  received,       \* the server event the last step handled, if it handled one
  \* the call page (meeting-call.tsx)
  effectDeps,     \* <<isConnected, isRecording>> as the recording effect last saw them
  timerId,        \* TRUE while the recording effect's timer is pending
  attempts,       \* failed startRecording() attempts of the running effect
  endCall,        \* position of confirmEndCall
  transcriptData, \* confirmEndCall's local transcriptData
  endedMessages,  \* the message list as it stood when confirmEndCall was called
  connectDeps,    \* <<agentId loaded, isConnected, isConnecting>> as the auto-connect effect last saw them
  isMicOn,        \* the microphone toggle
  disabledTracks, \* local streams whose audio track has enabled = false
  \* the server (routes.ts, storage.ts, inngest/functions.ts)
  relay,          \* the last /api/realtime/session exchange: request, upstream outcome, response
  meetingStatus,  \* meetings.status of the meeting
  events,         \* the meeting/call.ended events sent, each its transcriptData
  jobs,           \* per event, which background functions have run
  transcripts,    \* the transcripts table, in insertion order
  summaries,      \* the summaries created: the event and the transcripts each was made from
  \* the realtime endpoint
  sentItems       \* texts of the conversation items the client created, not yet echoed

\* what a call returned or a promise resolved with: a boolean ("true"/"false"),
\* null, or an artifact made of chunks; "none" when the step returned nothing
Returned(op, value, chunks) == [op |-> op, value |-> value, chunks |-> chunks]
NoReturn == Returned("none", "none", <<>>)

\* a server event as the handler reads it: its type and the payload fields used
Event(t, r, x) == [type |-> t, role |-> r, text |-> x]
NoEvent == Event("none", "none", <<>>)

stateVars == <<isConnected, isConnecting, isListening, isSpeaking, isRecording,
               error, messages, connectionState>>
refVars == <<peerConnectionRef, dataChannelRef, audioElementRef, localStreamRef,
             remoteStreamRef, mediaRecorderRef, audioContextRef>>
turnVars == <<currentAssistantMessageIdRef, currentAssistantTextRef, messageIdCounter>>
objVars == <<pcState, tracked, dcState, streamState>>
recVars == <<recState, recStopping, recOnstop, recordedChunksRef, recDelivered>>
ctlVars == <<task, nextId, nextRec>>
hookVars == <<stateVars, refVars, turnVars, objVars, recVars, ctlVars, lastCall, trace,
              returned, received>>
retryVars == <<effectDeps, timerId, attempts>>
endVars == <<endCall, transcriptData, endedMessages>>
autoVars == <<connectDeps>>
micVars == <<isMicOn, disabledTracks>>
pageVars == <<retryVars, endVars, autoVars, micVars>>
relayVars == <<relay>>
meetingVars == <<meetingStatus, events, jobs, transcripts, summaries>>
upstreamVars == <<sentItems>>
serverVars == <<relayVars, meetingVars, upstreamVars>>
vars == <<hookVars, pageVars, serverVars>>

\* ---- the server at start: no signaling exchange has taken place ----
Upstream(kind, status, body) == [kind |-> kind, status |-> status, body |-> body]
NoUpstream == Upstream("none", 0, "")
Response(status, contentType, body) ==
  [status |-> status, contentType |-> contentType, body |-> body]
NoResponse == Response(0, "", "")

\* the job functions of one event: none has run
NoJobs == [save |-> "pending", summary |-> "pending", complete |-> "pending"]

ServerInit ==
  /\ relay = [offer |-> "", upstream |-> NoUpstream, response |-> NoResponse]
  /\ meetingStatus = "upcoming"
  /\ events = <<>> /\ jobs = <<>>
  /\ transcripts = <<>> /\ summaries = <<>>
  /\ sentItems = <<>>

\* ---- initial state: useState / useRef initial values (lines 31-53) ----
Init ==
  /\ isConnected = FALSE /\ isConnecting = FALSE /\ isListening = FALSE
  /\ isSpeaking = FALSE /\ isRecording = FALSE
  /\ error = None /\ messages = <<>> /\ connectionState = None
  /\ peerConnectionRef = Null /\ dataChannelRef = Null /\ audioElementRef = Null
  /\ localStreamRef = Null /\ remoteStreamRef = Null
  /\ mediaRecorderRef = Null /\ audioContextRef = Null
  /\ currentAssistantMessageIdRef = Null /\ currentAssistantTextRef = <<>>
  /\ messageIdCounter = 0
  /\ pcState = [i \in Ids |-> "none"]
  /\ tracked = {}
  /\ dcState = [i \in Ids |-> "none"]
  /\ streamState = [i \in Ids |-> "none"]
  /\ recState = [r \in RecIds |-> "none"]
  /\ recStopping = {} /\ recOnstop = {} /\ recordedChunksRef = <<>>
  /\ recDelivered = [r \in RecIds |-> 0]
  /\ task = [i \in Ids |-> "idle"]
  /\ nextId = 1 /\ nextRec = 1
  /\ effectDeps = <<FALSE, FALSE>> /\ timerId = FALSE /\ attempts = 0
  /\ endCall = "idle" /\ transcriptData = <<>> /\ endedMessages = <<>>
  /\ connectDeps = <<FALSE, FALSE, FALSE>> /\ isMicOn = TRUE /\ disabledTracks = {}
  /\ ServerInit
  /\ lastCall = "init" /\ trace = <<>> /\ returned = NoReturn
  /\ received = NoEvent

\* ---- cleanup (lines 298-333) ----
\* The recorder is stopped and its reference dropped only while it is active.
RecorderActive == mediaRecorderRef # Null /\ recState[mediaRecorderRef] # "inactive"

\* the calls as cleanup would make them if it closed the transport before the
\* side channel
cleanupCallsTransportFirst(lsr) ==
  (IF RecorderActive THEN <<"recorder.stop">> ELSE <<>>)
  \o (IF audioContextRef # Null THEN <<"audioContext.close">> ELSE <<>>)
  \o (IF peerConnectionRef # Null THEN <<"peerConnection.close">> ELSE <<>>)
  \o (IF dataChannelRef # Null THEN <<"dataChannel.close">> ELSE <<>>)
  \o (IF lsr # Null THEN <<"track.stop">> ELSE <<>>)

\* the external calls cleanup makes, in order; lsr is localStreamRef at the call
cleanupCalls(lsr) ==
  (IF RecorderActive THEN <<"recorder.stop">> ELSE <<>>)
  \o (IF audioContextRef # Null THEN <<"audioContext.close">> ELSE <<>>)
  \o (IF dataChannelRef # Null THEN <<"dataChannel.close">> ELSE <<>>)
  \o (IF peerConnectionRef # Null THEN <<"peerConnection.close">> ELSE <<>>)
  \o (IF lsr # Null THEN <<"track.stop">> ELSE <<>>)

\* cleanup's effect on the refs and on the objects they point to
cleanup(lsr) ==
  /\ mediaRecorderRef' = IF RecorderActive THEN Null ELSE mediaRecorderRef
  /\ recState' = IF RecorderActive
                   THEN [recState EXCEPT ![mediaRecorderRef] = "inactive"]
                   ELSE recState
  /\ recStopping' = IF RecorderActive THEN recStopping \cup {mediaRecorderRef}
                                      ELSE recStopping
  /\ UNCHANGED <<recOnstop, recordedChunksRef, recDelivered>>
  /\ audioContextRef' = Null
  /\ dataChannelRef' = Null
  /\ dcState' = IF dataChannelRef # Null /\ dcState[dataChannelRef] \in {"connecting", "open"}
                  THEN [dcState EXCEPT ![dataChannelRef] = "closed"]
                  ELSE dcState
  /\ peerConnectionRef' = Null
  /\ pcState' = IF peerConnectionRef # Null
                  THEN [pcState EXCEPT ![peerConnectionRef] = "closed"]
                  ELSE pcState
  /\ localStreamRef' = Null
  /\ streamState' = [i \in Ids |-> IF i = lsr
                                     THEN "stopped" ELSE streamState[i]]
  /\ audioElementRef' = Null
  /\ remoteStreamRef' = Null
  /\ currentAssistantMessageIdRef' = Null
  /\ currentAssistantTextRef' = <<>>

\* ---- connect (lines 335-505) ----
\* the guard as it would read if it tested the rendered state instead of the ref
AlreadyConnectedByState == isConnected

\* line 336: the guard on the session object
AlreadyConnected == peerConnectionRef # Null

\* lines 493-504: the catch block of connect(); lsr is localStreamRef when the
\* exception was thrown.  The error is set and the observer notified, then
\* cleanup runs.
connectCatch(i, message, lsr) ==
  /\ isConnecting' = FALSE
  /\ isConnected' = FALSE
  /\ error' = message
  /\ trace' = <<"onError">> \o <<"cleanup">> \o cleanupCalls(lsr)
  /\ cleanup(lsr)
  /\ task' = [task EXCEPT ![i] = "failed"]
  /\ UNCHANGED <<isListening, isSpeaking, isRecording, messages, connectionState,
                 messageIdCounter, tracked, nextId, nextRec>>

\* lines 335-394: the call, up to the first await
connect ==
  /\ lastCall' = "connect" /\ received' = NoEvent /\ returned' = NoReturn
  /\ IF AlreadyConnected
       THEN /\ trace' = <<>>
            /\ UNCHANGED <<stateVars, refVars, turnVars, objVars, recVars, ctlVars>>
       ELSE /\ nextId <= MaxConnects
            /\ isConnecting' = TRUE
            /\ error' = None
            /\ messages' = <<>>
            /\ pcState' = [pcState EXCEPT ![nextId] = "new"]
            /\ peerConnectionRef' = nextId
            /\ audioElementRef' = nextId
            /\ task' = [task EXCEPT ![nextId] = "getUserMedia"]
            /\ nextId' = nextId + 1
            /\ trace' = <<"new RTCPeerConnection", "getUserMedia">>
            /\ UNCHANGED <<isConnected, isListening, isSpeaking, isRecording,
                           connectionState, dataChannelRef, localStreamRef,
                           remoteStreamRef, mediaRecorderRef, audioContextRef,
                           turnVars, tracked, dcState, streamState, recVars, nextRec>>

\* lines 394-445: getUserMedia settles.  On success the stream is stored, its
\* track added to the transport (InvalidStateError on a closed transport) and the
\* side channel created; connect() then awaits candidate gathering.
getUserMediaSettled(i) ==
  /\ task[i] = "getUserMedia"
  /\ lastCall' = "getUserMediaSettled" /\ received' = NoEvent /\ returned' = NoReturn
  /\ \E granted \in BOOLEAN :
       IF ~granted
         THEN connectCatch(i, "Permission denied", localStreamRef)
         ELSE IF pcState[i] = "closed"
           THEN connectCatch(i, "InvalidStateError", i)
           ELSE /\ localStreamRef' = i
                /\ streamState' = [streamState EXCEPT ![i] = "live"]
                /\ dataChannelRef' = i
                /\ dcState' = [dcState EXCEPT ![i] = "connecting"]
                /\ task' = [task EXCEPT ![i] = "iceGathering"]
                /\ trace' = <<"addTrack", "createDataChannel", "createOffer">>
                /\ UNCHANGED <<stateVars, peerConnectionRef, audioElementRef,
                               remoteStreamRef, mediaRecorderRef, audioContextRef,
                               turnVars, pcState, tracked, recVars, nextId, nextRec>>

\* lines 445-479: gathering completed or the 2 s timer fired.  localDescription
\* is null when createOffer/setLocalDescription has not completed (or was
\* rejected because the transport was closed meanwhile).
iceGatheringSettled(i) ==
  /\ task[i] = "iceGathering"
  /\ lastCall' = "iceGatheringSettled" /\ received' = NoEvent /\ returned' = NoReturn
  /\ \E offer \in BOOLEAN :
       IF ~offer
         THEN connectCatch(i, "Failed to create offer", localStreamRef)
         ELSE /\ task' = [task EXCEPT ![i] = "fetch"]
              /\ trace' = <<"fetch">>
              /\ UNCHANGED <<stateVars, refVars, turnVars, objVars, recVars, nextId, nextRec>>

\* lines 475-490: the relay answered (or the request failed)
fetchSettled(i) ==
  /\ task[i] = "fetch"
  /\ lastCall' = "fetchSettled" /\ received' = NoEvent /\ returned' = NoReturn
  /\ \E outcome \in {"ok", "notOk", "rejected"} :
       CASE outcome = "notOk" -> connectCatch(i, "Failed to create session", localStreamRef)
         [] outcome = "rejected" -> connectCatch(i, "Failed to fetch", localStreamRef)
         [] outcome = "ok" ->
              /\ task' = [task EXCEPT ![i] = "setRemoteDescription"]
              /\ trace' = <<"setRemoteDescription">>
              /\ UNCHANGED <<stateVars, refVars, turnVars, objVars, recVars, nextId, nextRec>>

\* lines 490-492: setRemoteDescription settles; it is rejected on a closed
\* transport and may be rejected for the answer itself
setRemoteDescriptionSettled(i) ==
  /\ task[i] = "setRemoteDescription"
  /\ lastCall' = "setRemoteDescriptionSettled" /\ received' = NoEvent /\ returned' = NoReturn
  /\ \E accepted \in BOOLEAN :
       IF pcState[i] = "closed" \/ ~accepted
         THEN connectCatch(i, "InvalidStateError", localStreamRef)
         ELSE /\ task' = [task EXCEPT ![i] = "done"]
              /\ trace' = <<>>
              /\ UNCHANGED <<stateVars, refVars, turnVars, objVars, recVars, nextId, nextRec>>

\* ---- disconnect (lines 553-566) ----
disconnect ==
  /\ lastCall' = "disconnect" /\ received' = NoEvent /\ returned' = NoReturn
  /\ cleanup(localStreamRef)
  /\ isConnected' = FALSE /\ isConnecting' = FALSE /\ isListening' = FALSE
  /\ isSpeaking' = FALSE /\ isRecording' = FALSE
  /\ error' = None /\ messages' = <<>> /\ connectionState' = None
  /\ trace' = <<"cleanup">> \o cleanupCalls(localStreamRef) \o <<"onDisconnected">>
  /\ UNCHANGED <<messageIdCounter, tracked, ctlVars>>

\* ---- transport callbacks ----
\* the transitions the transport itself can make once the answer is applied;
\* close() moves it to "closed" without firing an event
TransportNext(s) ==
  CASE s = "new" -> {"connecting"}
    [] s = "connecting" -> {"connected", "failed"}
    [] s = "connected" -> {"disconnected"}
    [] s = "disconnected" -> {"connected", "failed"}
    [] OTHER -> {}

\* line 359 as it would read without `isConnecting: false`
ConnectingOnceConnectedKept(connecting) == connecting

\* line 359: the connecting flag is cleared when the transport reports connected
ConnectingOnceConnected(connecting) == FALSE

\* lines 354-373: pc.onconnectionstatechange
onconnectionstatechange(i) ==
  /\ task[i] = "done"
  /\ \E s \in TransportNext(pcState[i]) :
       /\ pcState' = [pcState EXCEPT ![i] = s]
       /\ connectionState' = s
       /\ lastCall' = "onconnectionstatechange" /\ received' = NoEvent /\ returned' = NoReturn
       /\ CASE s = "connected" ->
                 /\ isConnected' = TRUE
                 /\ isConnecting' = ConnectingOnceConnected(isConnecting)
                 /\ trace' = <<"onConnected">>
                 /\ UNCHANGED error
            [] s \in {"failed", "disconnected"} ->
                 /\ isConnected' = FALSE /\ isConnecting' = FALSE
                 /\ error' = IF s = "failed" THEN "Connection failed"
                                             ELSE "Connection disconnected"
                 /\ trace' = <<"onDisconnected">>
            [] s = "closed" ->
                 /\ isConnected' = FALSE /\ isConnecting' = FALSE
                 /\ trace' = <<"onDisconnected">>
                 /\ UNCHANGED error
            [] OTHER ->
                 /\ trace' = <<>>
                 /\ UNCHANGED <<isConnected, isConnecting, error>>
  /\ UNCHANGED <<isListening, isSpeaking, isRecording, messages, refVars, turnVars,
                 tracked, dcState, streamState, recVars, ctlVars>>

\* lines 386-392: pc.ontrack
ontrack(i) ==
  /\ task[i] = "done" /\ pcState[i] # "closed" /\ i \notin tracked
  /\ tracked' = tracked \cup {i}
  /\ remoteStreamRef' = IF audioElementRef # Null THEN i ELSE remoteStreamRef
  /\ lastCall' = "ontrack" /\ received' = NoEvent /\ returned' = NoReturn
  /\ trace' = <<>>
  /\ UNCHANGED <<stateVars, peerConnectionRef, dataChannelRef, audioElementRef,
                 localStreamRef, mediaRecorderRef, audioContextRef, turnVars,
                 pcState, dcState, streamState, recVars, ctlVars>>

\* lines 404-425: dc.onopen
dcOnopen(i) ==
  /\ dcState[i] = "connecting" /\ pcState[i] = "connected"
  /\ dcState' = [dcState EXCEPT ![i] = "open"]
  /\ isListening' = TRUE
  /\ lastCall' = "dcOnopen" /\ received' = NoEvent /\ returned' = NoReturn
  /\ trace' = <<"send session.update">>
  /\ UNCHANGED <<isConnected, isConnecting, isSpeaking, isRecording, error, messages,
                 connectionState, refVars, turnVars, pcState, tracked, streamState,
                 recVars, ctlVars>>

\* lines 427-430: dc.onclose, when the peer closes the open channel.  A channel
\* closed by cleanup is torn down with its transport in the same step
\* (dc.close() then pc.close()), which ends it abruptly.
dcOnclose(i) ==
  /\ dcState[i] = "open"
  /\ dcState' = [dcState EXCEPT ![i] = "closed"]
  /\ isListening' = FALSE
  /\ lastCall' = "dcOnclose" /\ received' = NoEvent /\ returned' = NoReturn
  /\ trace' = <<>>
  /\ UNCHANGED <<isConnected, isConnecting, isSpeaking, isRecording, error, messages,
                 connectionState, refVars, turnVars, pcState, tracked, streamState,
                 recVars, ctlVars>>

\* ---- Mixed recorder ----
\* lines 235-296: startRecording.  The mixing graph or the MediaRecorder
\* constructor may throw (supported = FALSE); the exception is caught.
startRecording ==
  /\ lastCall' = "startRecording" /\ received' = NoEvent
  /\ IF localStreamRef = Null \/ remoteStreamRef = Null
       THEN /\ returned' = Returned("startRecording", "false", <<>>)
            /\ trace' = <<>>
            /\ UNCHANGED <<stateVars, refVars, turnVars, objVars, recVars, ctlVars>>
       ELSE IF RecorderActive
         THEN /\ returned' = Returned("startRecording", "true", <<>>)
              /\ trace' = <<>>
              /\ UNCHANGED <<stateVars, refVars, turnVars, objVars, recVars, ctlVars>>
         ELSE /\ nextRec <= MaxRecorders
              /\ \E supported \in BOOLEAN :
                   /\ audioContextRef' = nextRec
                   /\ trace' = (IF audioContextRef # Null THEN <<"audioContext.close">>
                                                         ELSE <<>>)
                               \o <<"new AudioContext">>
                               \o (IF supported THEN <<"new MediaRecorder", "recorder.start">>
                                                ELSE <<>>)
                   /\ IF supported
                        THEN /\ recordedChunksRef' = <<>>
                             /\ mediaRecorderRef' = nextRec
                             /\ recState' = [recState EXCEPT ![nextRec] = "recording"]
                             /\ nextRec' = nextRec + 1
                             /\ isRecording' = TRUE
                             /\ returned' = Returned("startRecording", "true", <<>>)
                        ELSE /\ returned' = Returned("startRecording", "false", <<>>)
                             /\ UNCHANGED <<recordedChunksRef, mediaRecorderRef, recState,
                                            nextRec, isRecording>>
              /\ UNCHANGED <<isConnected, isConnecting, isListening, isSpeaking, error,
                             messages, connectionState, peerConnectionRef, dataChannelRef,
                             audioElementRef, localStreamRef, remoteStreamRef, turnVars,
                             objVars, recStopping, recOnstop, recDelivered, task, nextId>>

\* lines 214-233: stopRecording, up to recorder.stop(); the promise is settled
\* by the recorder's stop event unless no recording is active
stopRecording ==
  /\ lastCall' = "stopRecording" /\ received' = NoEvent
  /\ IF ~RecorderActive
       THEN /\ returned' = Returned("stopRecording", "null", <<>>)
            /\ trace' = <<>>
            /\ UNCHANGED recVars
       ELSE /\ recOnstop' = recOnstop \cup {mediaRecorderRef}
            /\ recState' = [recState EXCEPT ![mediaRecorderRef] = "inactive"]
            /\ recStopping' = recStopping \cup {mediaRecorderRef}
            /\ returned' = NoReturn
            /\ trace' = <<"recorder.stop">>
            /\ UNCHANGED <<recordedChunksRef, recDelivered>>
  /\ UNCHANGED <<stateVars, refVars, turnVars, objVars, ctlVars>>

\* the k-th non-empty chunk recorder r delivers
Chunk(r, k) == <<r, k>>

\* lines 281-285: recorder.ondataavailable, fired every timeslice while
\* recording; every recorder's handler pushes to the one shared chunk list
ondataavailable(r) ==
  /\ recState[r] = "recording"
  /\ Len(recordedChunksRef) < MaxChunks /\ recDelivered[r] < MaxChunks
  /\ recordedChunksRef' = Append(recordedChunksRef, Chunk(r, recDelivered[r] + 1))
  /\ recDelivered' = [recDelivered EXCEPT ![r] = @ + 1]
  /\ lastCall' = "ondataavailable" /\ received' = NoEvent /\ returned' = NoReturn
  /\ trace' = <<>>
  /\ UNCHANGED <<stateVars, refVars, turnVars, objVars, recState, recStopping,
                 recOnstop, ctlVars>>

\* The task queued by MediaRecorder.stop(): a last dataavailable event (its blob
\* possibly empty), then the stop event (lines 224-229 when stopRecording
\* installed onstop).
recorderStopped(r) ==
  /\ r \in recStopping
  /\ recStopping' = recStopping \ {r}
  /\ recOnstop' = recOnstop \ {r}
  /\ recDelivered' = [recDelivered EXCEPT ![r] = 0]
  /\ lastCall' = "recorderStopped" /\ received' = NoEvent
  /\ \E flushed \in BOOLEAN :
       /\ flushed => Len(recordedChunksRef) < MaxChunks /\ recDelivered[r] < MaxChunks
       /\ LET chunks == IF flushed
                          THEN Append(recordedChunksRef, Chunk(r, recDelivered[r] + 1))
                          ELSE recordedChunksRef
          IN IF r \in recOnstop
               THEN /\ recordedChunksRef' = <<>>
                    /\ isRecording' = FALSE
                    /\ returned' = Returned("stopRecording", "artifact", chunks)
                    /\ trace' = <<"resolve">>
               ELSE /\ recordedChunksRef' = chunks
                    /\ returned' = NoReturn
                    /\ trace' = <<>>
                    /\ UNCHANGED isRecording
  /\ UNCHANGED <<isConnected, isConnecting, isListening, isSpeaking, error, messages,
                 connectionState, refVars, turnVars, objVars, recState, ctlVars>>

\* ---- Event normalizer and transcript assembler (lines 60-212) ----
\* Text is a sequence of tokens; string concatenation is \o and the empty
\* string (falsy in the source) is <<>>.
Deltas == {<<"hi">>}
UserTexts == {<<"hello there">>}

DeltaTypes == {"response.audio_transcript.delta", "response.output_audio_transcript.delta",
               "response.text.delta", "response.output_text.delta"}
DoneTypes == {"response.audio_transcript.done", "response.output_audio_transcript.done",
              "response.text.done", "response.output_text.done"}
LoggedTypes == {"session.created", "session.updated", "input_audio_buffer.committed",
                "response.audio.done", "rate_limits.updated"}
\* the set as it would read if a type with a case of its own were counted in
UnhandledTypesWithResponseDone ==
  {"response.content_part.added", "output_audio_buffer.started", "response.done"}

\* types the switch has no case for
UnhandledTypes == {"response.content_part.added", "output_audio_buffer.started"}

\* the messages the side channel can deliver, by type with the payload read
ServerEvents ==
  {Event(t, "none", <<>>) :
     t \in LoggedTypes \cup UnhandledTypes \cup DoneTypes \cup
           {"input_audio_buffer.speech_started", "input_audio_buffer.speech_stopped",
            "response.created", "response.output_item.done", "response.audio.delta",
            "response.done"}}
  \cup {Event("conversation.item.created", r, x) :
          r \in {"user", "assistant"}, x \in UserTexts \cup {<<>>}}
  \cup {Event("conversation.item.input_audio_transcription.completed", "none", x) :
          x \in UserTexts \cup {<<>>}}
  \cup {Event("response.output_item.added", r, <<>>) : r \in {"assistant", "none"}}
  \cup {Event(t, "none", x) : t \in DeltaTypes, x \in Deltas \cup {<<>>}}
  \cup {Event("error", "none", x) : x \in {<<>>, <<"rate limited">>}}

\* lines 60-63: generateMessageId (the counter makes the id unique)
generateMessageId == messageIdCounter + 1

\* a turn; its timestamp and its id are both taken from the clock at creation
Message(id, type, content, isFinal) ==
  [id |-> id, type |-> type, content |-> content, isFinal |-> isFinal, timestamp |-> id]

\* lines 65-71
addMessage(message) == Append(messages, message)

\* updateMessage as it would read without the test of the id
updateMessageAny(messageId, content, isFinal) ==
  [k \in DOMAIN messages |->
     [messages[k] EXCEPT !.content = content, !.isFinal = isFinal]]

\* lines 73-80
updateMessage(messageId, content, isFinal) ==
  [k \in DOMAIN messages |->
     IF messages[k].id = messageId
       THEN [messages[k] EXCEPT !.content = content, !.isFinal = isFinal]
       ELSE messages[k]]

\* the normalized kind of an event type: the case of the switch that handles it
Kind(t) ==
  CASE t \in DeltaTypes -> "delta"
    [] t \in DoneTypes -> "done"
    [] t \in LoggedTypes -> "logged"
    [] t \in UnhandledTypes -> "default"
    [] OTHER -> t

\* lines 82-212: handleServerEvent
handleServerEvent(event) ==
  LET t == event.type
      pointer == currentAssistantMessageIdRef
      text == currentAssistantTextRef
  IN
  CASE t = "input_audio_buffer.speech_started" ->
         /\ isListening' = TRUE
         /\ trace' = <<>>
         /\ UNCHANGED <<isSpeaking, error, messages, turnVars>>
    [] t = "input_audio_buffer.speech_stopped" ->
         /\ isListening' = FALSE
         /\ trace' = <<>>
         /\ UNCHANGED <<isSpeaking, error, messages, turnVars>>
    [] t = "conversation.item.created" ->
         IF event.role = "user" /\ event.text # <<>>
           THEN /\ messageIdCounter < MaxMessages
                /\ messageIdCounter' = generateMessageId
                /\ messages' = addMessage(Message(generateMessageId, "user", event.text, TRUE))
                /\ trace' = <<"onMessage">>
                /\ UNCHANGED <<isListening, isSpeaking, error,
                               currentAssistantMessageIdRef, currentAssistantTextRef>>
           ELSE /\ trace' = <<>>
                /\ UNCHANGED <<isListening, isSpeaking, error, messages, turnVars>>
    [] t = "conversation.item.input_audio_transcription.completed" ->
         IF event.text # <<>>
           THEN /\ messageIdCounter < MaxMessages
                /\ messageIdCounter' = generateMessageId
                /\ messages' = addMessage(Message(generateMessageId, "user", event.text, TRUE))
                /\ trace' = <<"onMessage">>
                /\ UNCHANGED <<isListening, isSpeaking, error,
                               currentAssistantMessageIdRef, currentAssistantTextRef>>
           ELSE /\ trace' = <<>>
                /\ UNCHANGED <<isListening, isSpeaking, error, messages, turnVars>>
    [] t = "response.created" ->
         /\ isSpeaking' = TRUE
         /\ trace' = <<>>
         /\ UNCHANGED <<isListening, error, messages, turnVars>>
    [] t = "response.output_item.added" ->
         IF event.role = "assistant"
           THEN /\ messageIdCounter < MaxMessages
                /\ messageIdCounter' = generateMessageId
                /\ currentAssistantMessageIdRef' = generateMessageId
                /\ currentAssistantTextRef' = <<>>
                /\ messages' = addMessage(Message(generateMessageId, "assistant", <<>>, FALSE))
                /\ trace' = <<"onMessage">>
                /\ UNCHANGED <<isListening, isSpeaking, error>>
           ELSE /\ trace' = <<>>
                /\ UNCHANGED <<isListening, isSpeaking, error, messages, turnVars>>
    [] t \in DeltaTypes ->
         IF event.text # <<>> /\ pointer # Null
           THEN /\ Len(text) + Len(event.text) <= MaxText
                /\ currentAssistantTextRef' = text \o event.text
                /\ messages' = updateMessage(pointer, text \o event.text, FALSE)
                /\ trace' = <<>>
                /\ UNCHANGED <<isListening, isSpeaking, error,
                               currentAssistantMessageIdRef, messageIdCounter>>
           ELSE /\ trace' = <<>>
                /\ UNCHANGED <<isListening, isSpeaking, error, messages, turnVars>>
    [] t \in DoneTypes ->
         /\ messages' = IF pointer # Null THEN updateMessage(pointer, text, TRUE)
                                          ELSE messages
         /\ trace' = <<>>
         /\ UNCHANGED <<isListening, isSpeaking, error, turnVars>>
    [] t = "response.output_item.done" ->
         /\ messages' = IF pointer # Null /\ text # <<>>
                          THEN updateMessage(pointer, text, TRUE)
                          ELSE messages
         /\ currentAssistantMessageIdRef' = Null
         /\ currentAssistantTextRef' = <<>>
         /\ trace' = <<>>
         /\ UNCHANGED <<isListening, isSpeaking, error, messageIdCounter>>
    [] t = "response.audio.delta" ->
         /\ isSpeaking' = TRUE
         /\ trace' = <<>>
         /\ UNCHANGED <<isListening, error, messages, turnVars>>
    [] t = "response.done" ->
         /\ isSpeaking' = FALSE
         /\ currentAssistantMessageIdRef' = Null
         /\ currentAssistantTextRef' = <<>>
         /\ trace' = <<>>
         /\ UNCHANGED <<isListening, error, messages, messageIdCounter>>
    [] t = "error" ->
         /\ error' = IF event.text # <<>> THEN "rate limited" ELSE "Unknown error"
         /\ trace' = <<"onError">>
         /\ UNCHANGED <<isListening, isSpeaking, messages, turnVars>>
    [] OTHER ->
         \* the cases that only log, and the default case
         /\ trace' = <<>>
         /\ UNCHANGED <<isListening, isSpeaking, error, messages, turnVars>>

\* lines 436-443: dc.onmessage; a message that is not JSON is logged and dropped
dcOnmessage(i) ==
  /\ dcState[i] = "open"
  /\ returned' = NoReturn
  /\ \E parsed \in BOOLEAN :
       IF parsed
         THEN \E event \in ServerEvents :
                /\ lastCall' = Kind(event.type) /\ received' = event
                /\ handleServerEvent(event)
         ELSE /\ lastCall' = "malformed" /\ received' = NoEvent
              /\ trace' = <<>>
              /\ UNCHANGED <<isListening, isSpeaking, error, messages, turnVars>>
  /\ UNCHANGED <<isConnected, isConnecting, isRecording, connectionState, refVars,
                 objVars, recVars, ctlVars>>

\* ---- calls on the open side channel ----
\* lines 508 and 536: the side channel exists and is open
ChannelOpen == dataChannelRef # Null /\ dcState[dataChannelRef] = "open"

\* lines 535-543: interrupt
interrupt ==
  /\ lastCall' = "interrupt" /\ received' = NoEvent /\ returned' = NoReturn
  /\ IF ~ChannelOpen
       THEN /\ trace' = <<>>
            /\ UNCHANGED isSpeaking
       ELSE /\ trace' = <<"send response.cancel">>
            /\ isSpeaking' = FALSE
  /\ UNCHANGED <<isConnected, isConnecting, isListening, isRecording, error, messages,
                 connectionState, refVars, turnVars, objVars, recVars, ctlVars>>

\* the texts the user types
TypedTexts == {<<"typed question">>}

\* lines 507-533: sendTextMessage.  The item and the response request are sent
\* on the side channel and the turn is added locally.
sendTextMessage(text) ==
  /\ lastCall' = "sendTextMessage" /\ received' = NoEvent /\ returned' = NoReturn
  /\ IF ~ChannelOpen
       THEN /\ trace' = <<>>
            /\ UNCHANGED <<messages, messageIdCounter, sentItems>>
       ELSE /\ messageIdCounter < MaxMessages
            /\ sentItems' = Append(sentItems, text)
            /\ messageIdCounter' = generateMessageId
            /\ messages' = addMessage(Message(generateMessageId, "user", text, TRUE))
            /\ trace' = <<"send conversation.item.create", "send response.create", "onMessage">>
  /\ UNCHANGED <<isConnected, isConnecting, isListening, isSpeaking, isRecording, error,
                 connectionState, refVars, currentAssistantMessageIdRef,
                 currentAssistantTextRef, objVars, recVars, ctlVars>>
  /\ UNCHANGED <<pageVars, relayVars, meetingVars>>

\* lines 436-443 and 106-119: dc.onmessage with the conversation.item.created
\* event by which the endpoint acknowledges an item the client created; the
\* event carries the item with its input_text content
dcOnmessageEcho(i) ==
  /\ dcState[i] = "open" /\ dataChannelRef = i
  /\ sentItems # <<>>
  /\ sentItems' = Tail(sentItems)
  /\ returned' = NoReturn
  /\ LET event == Event("conversation.item.created", "user", Head(sentItems))
     IN /\ lastCall' = Kind(event.type) /\ received' = event
        /\ handleServerEvent(event)
  /\ UNCHANGED <<isConnected, isConnecting, isRecording, connectionState, refVars,
                 objVars, recVars, ctlVars>>
  /\ UNCHANGED <<pageVars, relayVars, meetingVars>>

Next ==
  \/ connect /\ UNCHANGED <<pageVars, serverVars>>
  \/ disconnect /\ UNCHANGED <<pageVars, serverVars>>
  \/ \E i \in Ids : getUserMediaSettled(i) /\ UNCHANGED <<pageVars, serverVars>>
  \/ \E i \in Ids : iceGatheringSettled(i) /\ UNCHANGED <<pageVars, serverVars>>
  \/ \E i \in Ids : fetchSettled(i) /\ UNCHANGED <<pageVars, serverVars>>
  \/ \E i \in Ids : setRemoteDescriptionSettled(i) /\ UNCHANGED <<pageVars, serverVars>>
  \/ \E i \in Ids : onconnectionstatechange(i) /\ UNCHANGED <<pageVars, serverVars>>
  \/ \E i \in Ids : ontrack(i) /\ UNCHANGED <<pageVars, serverVars>>
  \/ \E i \in Ids : dcOnopen(i) /\ UNCHANGED <<pageVars, serverVars>>
  \/ \E i \in Ids : dcOnclose(i) /\ UNCHANGED <<pageVars, serverVars>>
  \/ startRecording /\ UNCHANGED <<pageVars, serverVars>>
  \/ stopRecording /\ UNCHANGED <<pageVars, serverVars>>
  \/ \E r \in RecIds : recorderStopped(r) /\ UNCHANGED <<pageVars, serverVars>>

Spec == Init /\ [][Next]_vars

\* ---- the side channel of an established session ----
\* handleServerEvent runs only while the side channel is open, reads none of the
\* session's resource refs and writes only the flags, the error, the messages
\* and the turn refs.  SpecEvents explores it from the state in which dc.onopen
\* has just run in the first session (a reachable state of Spec).
InitEvents ==
  /\ isConnected = TRUE /\ isConnecting = FALSE /\ isListening = TRUE
  /\ isSpeaking = FALSE /\ isRecording = FALSE
  /\ error = None /\ messages = <<>> /\ connectionState = "connected"
  /\ peerConnectionRef = 1 /\ dataChannelRef = 1 /\ audioElementRef = 1
  /\ localStreamRef = 1 /\ remoteStreamRef = 1
  /\ mediaRecorderRef = Null /\ audioContextRef = Null
  /\ currentAssistantMessageIdRef = Null /\ currentAssistantTextRef = <<>>
  /\ messageIdCounter = 0
  /\ pcState = [i \in Ids |-> IF i = 1 THEN "connected" ELSE "none"]
  /\ tracked = {1}
  /\ dcState = [i \in Ids |-> IF i = 1 THEN "open" ELSE "none"]
  /\ streamState = [i \in Ids |-> IF i = 1 THEN "live" ELSE "none"]
  /\ recState = [r \in RecIds |-> "none"]
  /\ recStopping = {} /\ recOnstop = {} /\ recordedChunksRef = <<>>
  /\ recDelivered = [r \in RecIds |-> 0]
  /\ task = [i \in Ids |-> IF i = 1 THEN "done" ELSE "idle"]
  /\ nextId = 2 /\ nextRec = 1
  /\ effectDeps = <<TRUE, FALSE>> /\ timerId = TRUE /\ attempts = 0
  /\ endCall = "idle" /\ transcriptData = <<>> /\ endedMessages = <<>>
  /\ connectDeps = <<TRUE, TRUE, FALSE>> /\ isMicOn = TRUE /\ disabledTracks = {}
  /\ ServerInit
  /\ lastCall = "dcOnopen" /\ trace = <<"send session.update">> /\ returned = NoReturn
  /\ received = NoEvent

NextEvents ==
  \/ \E i \in Ids : dcOnmessage(i) /\ UNCHANGED <<pageVars, serverVars>>
  \/ \E i \in Ids : dcOnclose(i) /\ UNCHANGED <<pageVars, serverVars>>
  \/ interrupt /\ UNCHANGED <<pageVars, serverVars>>

SpecEvents == InitEvents /\ [][NextEvents]_vars

\* the server events that write the transcript (one spelling of each)
TranscriptEventTypes ==
  {"conversation.item.input_audio_transcription.completed", "response.output_item.added",
   "response.audio_transcript.delta", "response.audio_transcript.done",
   "response.output_item.done"}

\* The side channel of an established session with the user typing: the
\* transcript events, the user's text messages and their acknowledgements.
NextText ==
  \/ \E i \in Ids : /\ dcOnmessage(i)
                    /\ received'.type \in TranscriptEventTypes
                    /\ UNCHANGED <<pageVars, serverVars>>
  \/ \E i \in Ids : dcOnmessageEcho(i)
  \/ \E text \in TypedTexts : sendTextMessage(text)
  \/ \E i \in Ids : dcOnclose(i) /\ UNCHANGED <<pageVars, serverVars>>

SpecText == InitEvents /\ [][NextText]_vars

\* The mixed recorder on a connected session whose local and remote streams
\* are both present.
NextRecorder ==
  \/ startRecording /\ UNCHANGED <<pageVars, serverVars>>
  \/ stopRecording /\ UNCHANGED <<pageVars, serverVars>>
  \/ \E r \in RecIds : ondataavailable(r) /\ UNCHANGED <<pageVars, serverVars>>
  \/ \E r \in RecIds : recorderStopped(r) /\ UNCHANGED <<pageVars, serverVars>>
  \/ disconnect /\ UNCHANGED <<pageVars, serverVars>>

SpecRecorder == InitEvents /\ [][NextRecorder]_vars

\* ---- Signaling relay: POST /api/realtime/session (routes.ts lines 633-693) ----
\* the statuses and bodies the upstream endpoint answers with
UpstreamStatuses == {200, 201, 401, 500}
UpstreamBodies == {"v=0 answer", "", "upstream error detail"}

\* Response.ok of fetch: a 2xx status
Ok(status) == status >= 200 /\ status <= 299

\* line 683 as it would read if every upstream failure were reported as 500
ErrorStatusInternal(status) == 500

\* line 683: res.status(response.status)
ErrorStatus(status) == status

\* lines 633-693.  offer is the request body ("" when missing or not a string);
\* lookup is FALSE when storage.getAgent throws.  fetch either rejects or
\* yields the upstream answer, whose body the handler reads with
\* response.text(), which can reject in turn.
relaySession ==
  /\ LET failed == Response(500, "application/json", "Failed to create realtime session")
         Exchange(offer, upstream, response) ==
           [offer |-> offer, upstream |-> upstream, response |-> response]
     IN
     \E offer \in {"", "v=0 offer"} :
       IF offer = ""
         THEN relay' = Exchange(offer, NoUpstream,
                                Response(400, "application/json", "SDP offer is required"))
         ELSE \E lookup \in BOOLEAN :
           IF ~lookup
             THEN relay' = Exchange(offer, NoUpstream, failed)
             ELSE \E kind \in {"rejected", "answered", "bodyFailed"} :
               IF kind = "rejected"
                 THEN relay' = Exchange(offer, Upstream(kind, 0, ""), failed)
                 ELSE \E status \in UpstreamStatuses :
                   IF kind = "bodyFailed"
                     THEN relay' = Exchange(offer, Upstream(kind, status, ""), failed)
                     ELSE \E body \in UpstreamBodies :
                       relay' =
                         Exchange(offer, Upstream(kind, status, body),
                                  IF ~Ok(status)
                                    THEN Response(ErrorStatus(status), "application/json",
                                                  "Failed to create realtime session")
                                    ELSE Response(200, "application/sdp", body))
  /\ UNCHANGED <<hookVars, pageVars, meetingVars, upstreamVars>>

\* ---- Meeting lifecycle (routes.ts lines 169-216, storage.ts lines 150-176) ----
Statuses == {"upcoming", "active", "processing", "completed", "cancelled"}

\* routes.ts 169-187, storage.ts 150-156: PATCH /api/meetings/:id/status with a
\* valid status (any other is answered 400 and changes nothing)
patchStatus ==
  /\ \E status \in Statuses : meetingStatus' = status
  /\ UNCHANGED <<hookVars, pageVars, relayVars, upstreamVars, events, jobs, transcripts,
                 summaries>>

\* routes.ts 189-201, storage.ts 158-164: POST /api/meetings/:id/start
startMeeting ==
  /\ meetingStatus' = "active"
  /\ UNCHANGED <<hookVars, pageVars, relayVars, upstreamVars, events, jobs, transcripts,
                 summaries>>

\* routes.ts 203-216, storage.ts 166-176: POST /api/meetings/:id/end
endMeeting ==
  /\ meetingStatus' = "processing"
  /\ UNCHANGED <<hookVars, pageVars, relayVars, upstreamVars, events, jobs, transcripts,
                 summaries>>

\* ---- Background processing (routes.ts 491-511, inngest/functions.ts) ----
Record(speaker, content, timestamp) ==
  [speaker |-> speaker, content |-> content, timestamp |-> timestamp]

\* the transcriptData a request body can carry
TranscriptLists ==
  {<<>>, <<Record("User", <<"hello there">>, 1), Record("AI Assistant", <<"hi">>, 2)>>}

\* routes.ts 491-511: the event is sent with the request's transcriptData
sendCallEnded(data) ==
  /\ Len(events) < MaxEvents
  /\ events' = Append(events, data)
  /\ jobs' = Append(jobs, NoJobs)
  /\ UNCHANGED <<meetingStatus, transcripts, summaries>>

\* routes.ts 491-511: POST /api/meetings/:id/process
processMeeting ==
  /\ \E data \in TranscriptLists : sendCallEnded(data)
  /\ UNCHANGED <<hookVars, pageVars, relayVars, upstreamVars>>

\* functions.ts 16-36: processMeetingTranscripts, step save-transcripts
processMeetingTranscripts(e) ==
  /\ e \in DOMAIN events /\ jobs[e].save = "pending"
  /\ jobs' = [jobs EXCEPT ![e].save = "done"]
  /\ transcripts' = IF Len(events[e]) > 0 THEN transcripts \o events[e] ELSE transcripts
  /\ UNCHANGED <<hookVars, pageVars, relayVars, upstreamVars, meetingStatus, events, summaries>>

\* functions.ts 38-101: generateMeetingSummary, step generate-summary.  The
\* function reads the transcripts table as it is when the step runs; the
\* model's reply may fail to parse, which the step swallows.
generateMeetingSummary(e) ==
  /\ e \in DOMAIN events /\ jobs[e].summary = "pending"
  /\ \E parsed \in BOOLEAN :
       IF Len(transcripts) = 0
         THEN /\ jobs' = [jobs EXCEPT ![e].summary = "skipped"]
              /\ UNCHANGED summaries
         ELSE IF parsed
           THEN /\ jobs' = [jobs EXCEPT ![e].summary = "done"]
                /\ summaries' = Append(summaries, [event |-> e, from |-> transcripts])
           ELSE /\ jobs' = [jobs EXCEPT ![e].summary = "unparsed"]
                /\ UNCHANGED summaries
  /\ UNCHANGED <<hookVars, pageVars, relayVars, upstreamVars, meetingStatus, events,
                 transcripts>>

\* functions.ts 150-165: completeMeetingProcessing, after the 5 s sleep
completeMeetingProcessing(e) ==
  /\ e \in DOMAIN events /\ jobs[e].complete = "pending"
  /\ jobs' = [jobs EXCEPT ![e].complete = "done"]
  /\ meetingStatus' = "completed"
  /\ UNCHANGED <<hookVars, pageVars, relayVars, upstreamVars, events, transcripts, summaries>>

NextServer ==
  \/ relaySession
  \/ patchStatus
  \/ startMeeting
  \/ endMeeting
  \/ processMeeting
  \/ \E e \in 1..MaxEvents : processMeetingTranscripts(e)
  \/ \E e \in 1..MaxEvents : generateMeetingSummary(e)
  \/ \E e \in 1..MaxEvents : completeMeetingProcessing(e)

SpecServer == Init /\ [][NextServer]_vars

\* ---- the call page: recording retry effect (meeting-call.tsx lines 116-141) ----
maxAttempts == 20

\* line 128 as it would read with the test of the result inverted
ShouldRetryOnSuccess(success, cancelled) == success /\ ~cancelled

\* line 128: retry after a failed attempt unless the effect was cleaned up
ShouldRetry(success, cancelled) == ~success /\ ~cancelled

\* lines 116-141: React runs the effect's cleanup and the effect again after a
\* render in which isConnected or isRecording changed.  The cleanup clears the
\* pending timer; the effect arms the 1000 ms timer when connected and not
\* recording.
recordingEffect ==
  /\ effectDeps # <<isConnected, isRecording>>
  /\ effectDeps' = <<isConnected, isRecording>>
  /\ timerId' = (isConnected /\ ~isRecording)
  /\ attempts' = 0
  /\ lastCall' = "recordingEffect" /\ received' = NoEvent /\ trace' = <<>> /\ returned' = NoReturn
  /\ UNCHANGED <<stateVars, refVars, turnVars, objVars, recVars, ctlVars, endVars, autoVars,
                 micVars, serverVars>>

\* line 125 as it would read with the comparison off by one
BudgetUsedUpLate(n) == n > maxAttempts

\* line 125: the budget is used up once maxAttempts attempts have failed
BudgetUsedUp(n) == n >= maxAttempts

\* lines 124-132: attemptStart, run by the timer.  The cleanup clears the timer,
\* so cancelled is false whenever the timer fires.
attemptStart ==
  /\ timerId
  /\ IF BudgetUsedUp(attempts)
       THEN /\ timerId' = FALSE
            /\ lastCall' = "attemptStart" /\ received' = NoEvent /\ trace' = <<>> /\ returned' = NoReturn
            /\ UNCHANGED <<stateVars, refVars, turnVars, objVars, recVars, ctlVars, attempts>>
       ELSE /\ startRecording
            /\ IF ShouldRetry(returned'.value = "true", FALSE)
                 THEN attempts' = attempts + 1 /\ timerId' = TRUE
                 ELSE timerId' = FALSE /\ UNCHANGED attempts
  /\ UNCHANGED <<effectDeps, endVars, autoVars, micVars, serverVars>>

\* The page once the transport of the first session is connected: the remote
\* track has not arrived, the side channel is still opening and the recording
\* effect has not yet run for the new isConnected.
InitRetry ==
  /\ isConnected = TRUE /\ isConnecting = FALSE /\ isListening = FALSE
  /\ isSpeaking = FALSE /\ isRecording = FALSE
  /\ error = None /\ messages = <<>> /\ connectionState = "connected"
  /\ peerConnectionRef = 1 /\ dataChannelRef = 1 /\ audioElementRef = 1
  /\ localStreamRef = 1 /\ remoteStreamRef = Null
  /\ mediaRecorderRef = Null /\ audioContextRef = Null
  /\ currentAssistantMessageIdRef = Null /\ currentAssistantTextRef = <<>>
  /\ messageIdCounter = 0
  /\ pcState = [i \in Ids |-> IF i = 1 THEN "connected" ELSE "none"]
  /\ tracked = {}
  /\ dcState = [i \in Ids |-> IF i = 1 THEN "connecting" ELSE "none"]
  /\ streamState = [i \in Ids |-> IF i = 1 THEN "live" ELSE "none"]
  /\ recState = [r \in RecIds |-> "none"]
  /\ recStopping = {} /\ recOnstop = {} /\ recordedChunksRef = <<>>
  /\ recDelivered = [r \in RecIds |-> 0]
  /\ task = [i \in Ids |-> IF i = 1 THEN "done" ELSE "idle"]
  /\ nextId = 2 /\ nextRec = 1
  /\ lastCall = "onconnectionstatechange" /\ trace = <<"onConnected">> /\ returned = NoReturn
  /\ received = NoEvent
  /\ effectDeps = <<FALSE, FALSE>> /\ timerId = FALSE /\ attempts = 0
  /\ endCall = "idle" /\ transcriptData = <<>> /\ endedMessages = <<>>
  /\ connectDeps = <<TRUE, FALSE, TRUE>> /\ isMicOn = TRUE /\ disabledTracks = {}
  /\ ServerInit

NextRetry ==
  \/ recordingEffect
  \/ attemptStart
  \/ \E i \in Ids : ontrack(i) /\ UNCHANGED <<pageVars, serverVars>>
  \/ \E i \in Ids : onconnectionstatechange(i) /\ UNCHANGED <<pageVars, serverVars>>

SpecRetry == InitRetry /\ [][NextRetry]_vars

\* ---- the call page: ending the call (meeting-call.tsx lines 211-252) ----
\* content.trim() is empty
Blank(content) == \A k \in DOMAIN content : content[k] = " "

\* line 216 as it would read without the test of the content
HandedOffIfFinal(msg) == msg.isFinal

\* line 216: the filter
HandedOff(msg) == msg.isFinal /\ ~Blank(msg.content)

\* lines 217-221: the record made of a turn
TranscriptRecord(msg) ==
  Record(IF msg.type = "user" THEN "User" ELSE "AI Assistant", msg.content, msg.timestamp)

\* lines 215-221
TranscriptData(msgs) ==
  LET kept == SelectSeq(msgs, HandedOff)
  IN [k \in DOMAIN kept |-> TranscriptRecord(kept[k])]

\* lines 243-249: disconnect(), then the POST /end request is sent
endCallDisconnect ==
  /\ disconnect
  /\ endCall' = "ending"

\* lines 211-240: confirmEndCall up to its first await.  The transcript is
\* read first; with isRecording set the function awaits stopRecording(),
\* otherwise it goes straight on to disconnect().
confirmEndCall ==
  /\ endCall = "idle"
  /\ transcriptData' = TranscriptData(messages)
  /\ endedMessages' = messages
  /\ IF isRecording
       THEN /\ stopRecording
            /\ endCall' = "stopping"
       ELSE endCallDisconnect
  /\ UNCHANGED <<retryVars, autoVars, micVars, serverVars>>

\* lines 226-243: stopRecording()'s promise has resolved
stopRecordingResolved ==
  /\ endCall = "stopping" /\ recOnstop = {}
  /\ endCallDisconnect
  /\ UNCHANGED <<retryVars, transcriptData, endedMessages, autoVars, micVars, serverVars>>

\* lines 249-252: POST /end is answered.  mutateAsync rejects when the request
\* fails, which ends confirmEndCall; otherwise the meeting is processing and
\* POST /process is sent with transcriptData.
endMeetingSettled ==
  /\ endCall = "ending"
  /\ \E ok \in BOOLEAN :
       IF ok THEN meetingStatus' = "processing" /\ endCall' = "processing"
             ELSE endCall' = "failed" /\ UNCHANGED meetingStatus
  /\ UNCHANGED <<hookVars, retryVars, transcriptData, endedMessages, autoVars, micVars,
                 relayVars, upstreamVars, events, jobs, transcripts, summaries>>

\* line 252 and routes.ts 491-511: POST /process arrives with the page's
\* transcriptData and the call-ended event is sent
processMeetingRequested ==
  /\ endCall = "processing"
  /\ sendCallEnded(transcriptData)
  /\ endCall' = "handedOff"
  /\ UNCHANGED <<hookVars, retryVars, transcriptData, endedMessages, autoVars, micVars,
                 relayVars, upstreamVars>>

\* The page on a connected session with the side channel open, the mixed
\* recording either running or not started.
InitEndCall ==
  \E recording \in BOOLEAN :
    /\ isConnected = TRUE /\ isConnecting = FALSE /\ isListening = TRUE
    /\ isSpeaking = FALSE /\ isRecording = recording
    /\ error = None /\ messages = <<>> /\ connectionState = "connected"
    /\ peerConnectionRef = 1 /\ dataChannelRef = 1 /\ audioElementRef = 1
    /\ localStreamRef = 1 /\ remoteStreamRef = 1
    /\ mediaRecorderRef = (IF recording THEN 1 ELSE Null)
    /\ audioContextRef = (IF recording THEN 1 ELSE Null)
    /\ currentAssistantMessageIdRef = Null /\ currentAssistantTextRef = <<>>
    /\ messageIdCounter = 0
    /\ pcState = [i \in Ids |-> IF i = 1 THEN "connected" ELSE "none"]
    /\ tracked = {1}
    /\ dcState = [i \in Ids |-> IF i = 1 THEN "open" ELSE "none"]
    /\ streamState = [i \in Ids |-> IF i = 1 THEN "live" ELSE "none"]
    /\ recState = [r \in RecIds |-> IF recording /\ r = 1 THEN "recording" ELSE "none"]
    /\ recStopping = {} /\ recOnstop = {} /\ recordedChunksRef = <<>>
    /\ recDelivered = [r \in RecIds |-> 0]
    /\ task = [i \in Ids |-> IF i = 1 THEN "done" ELSE "idle"]
    /\ nextId = 2 /\ nextRec = (IF recording THEN 2 ELSE 1)
    /\ lastCall = "recordingEffect" /\ trace = <<>> /\ returned = NoReturn
    /\ received = NoEvent
    /\ effectDeps = <<TRUE, recording>> /\ timerId = ~recording /\ attempts = 0
    /\ endCall = "idle" /\ transcriptData = <<>> /\ endedMessages = <<>>
    /\ connectDeps = <<TRUE, TRUE, FALSE>> /\ isMicOn = TRUE /\ disabledTracks = {}
    /\ ServerInit

NextEndCall ==
  \/ \E i \in Ids : /\ dcOnmessage(i)
                    /\ received'.type \in TranscriptEventTypes
                    /\ UNCHANGED <<pageVars, serverVars>>
  \/ \E r \in RecIds : recorderStopped(r) /\ UNCHANGED <<pageVars, serverVars>>
  \/ confirmEndCall
  \/ stopRecordingResolved
  \/ endMeetingSettled
  \/ processMeetingRequested

SpecEndCall == InitEndCall /\ [][NextEndCall]_vars

\* ---- the call page: auto-connect, microphone toggle, leaving ----
\* the dependencies of the auto-connect effect as they are now, the meeting
\* (and its agentId) loaded
ConnectDeps == <<TRUE, isConnected, isConnecting>>

\* meeting-call.tsx lines 110-114: React runs the effect after a render in which
\* a dependency changed; it calls connect() when the session is neither
\* connected nor connecting
connectEffect ==
  /\ endCall # "left"
  /\ connectDeps # ConnectDeps
  /\ connectDeps' = ConnectDeps
  /\ IF ~isConnected /\ ~isConnecting
       THEN connect
       ELSE /\ lastCall' = "connectEffect" /\ received' = NoEvent /\ returned' = NoReturn
            /\ trace' = <<>>
            /\ UNCHANGED <<stateVars, refVars, turnVars, objVars, recVars, ctlVars>>
  /\ UNCHANGED <<retryVars, endVars, micVars, serverVars>>

\* React runs the effects of the last render before it handles a click, so a
\* user action finds the auto-connect effect up to date
EffectsFlushed == connectDeps = ConnectDeps

\* use-realtime-agent.ts lines 545-551: setMuted
setMuted(muted) ==
  disabledTracks' = IF localStreamRef = Null THEN disabledTracks
                    ELSE IF muted THEN disabledTracks \cup {localStreamRef}
                    ELSE disabledTracks \ {localStreamRef}

\* meeting-call.tsx line 380 and lines 175-177: the toggle is clicked and the
\* mute effect runs for the new value
toggleMic ==
  /\ endCall # "left" /\ EffectsFlushed
  /\ isMicOn' = ~isMicOn
  /\ setMuted(~isMicOn')
  /\ lastCall' = "setMuted" /\ received' = NoEvent /\ returned' = NoReturn /\ trace' = <<>>
  /\ UNCHANGED <<stateVars, refVars, turnVars, objVars, recVars, ctlVars>>
  /\ UNCHANGED <<retryVars, endVars, autoVars, serverVars>>

\* meeting-call.tsx lines 93-101: POST /process is settled (onSuccess or onError)
\* and the page navigates away; the hook's unmount effect
\* (use-realtime-agent.ts lines 568-572) runs cleanup
leavePage ==
  /\ endCall \in {"processing", "handedOff"}
  /\ endCall' = "left"
  /\ cleanup(localStreamRef)
  /\ lastCall' = "unmount" /\ received' = NoEvent /\ returned' = NoReturn
  /\ trace' = <<"cleanup">> \o cleanupCalls(localStreamRef)
  /\ UNCHANGED <<stateVars, messageIdCounter, tracked, ctlVars>>
  /\ UNCHANGED <<retryVars, transcriptData, endedMessages, autoVars, micVars, serverVars>>

\* The page from its mount with the meeting loaded; the only user actions are
\* the microphone toggle and ending the call.
NextPage ==
  \/ connectEffect
  \/ \E i \in Ids : getUserMediaSettled(i) /\ UNCHANGED <<pageVars, serverVars>>
  \/ \E i \in Ids : iceGatheringSettled(i) /\ UNCHANGED <<pageVars, serverVars>>
  \/ \E i \in Ids : fetchSettled(i) /\ UNCHANGED <<pageVars, serverVars>>
  \/ \E i \in Ids : setRemoteDescriptionSettled(i) /\ UNCHANGED <<pageVars, serverVars>>
  \/ \E i \in Ids : onconnectionstatechange(i) /\ UNCHANGED <<pageVars, serverVars>>
  \/ \E i \in Ids : ontrack(i) /\ UNCHANGED <<pageVars, serverVars>>
  \/ \E i \in Ids : dcOnopen(i) /\ UNCHANGED <<pageVars, serverVars>>
  \/ toggleMic
  \/ EffectsFlushed /\ confirmEndCall
  \/ endMeetingSettled
  \/ processMeetingRequested
  \/ leavePage

SpecPage == Init /\ [][NextPage]_vars


\* ======================= properties =======================
Range(f) == {f[k] : k \in DOMAIN f}

\* every resource reference of the session is null
AllRefsNull ==
  /\ peerConnectionRef = Null /\ dataChannelRef = Null /\ audioElementRef = Null
  /\ localStreamRef = Null /\ remoteStreamRef = Null
  /\ mediaRecorderRef = Null /\ audioContextRef = Null

Suspended == {"getUserMedia", "iceGathering", "fetch", "setRemoteDescription"}

\* the step that ran last was a resumption of connect() that ended in its catch block
ConnectFailedStep ==
  /\ lastCall \in {"getUserMediaSettled", "iceGatheringSettled", "fetchSettled",
                   "setRemoteDescriptionSettled"}
  /\ trace # <<>> /\ trace[1] = "onError"

\* C1: after disconnect(), in whatever state it was called, every resource
\* reference of the session is null.
C1_DisconnectNullsAllRefs == lastCall = "disconnect" => AllRefsNull

\* C2: a connect() called in a terminal condition (the transport reported
\* failed, disconnected or closed, or a connect() attempt failed) starts a new
\* negotiation: the session is connecting when the call returns.
ConnectErrors == {"Permission denied", "InvalidStateError", "Failed to create offer",
                  "Failed to create session", "Failed to fetch"}
TerminalCondition ==
  \/ connectionState \in {"failed", "disconnected", "closed"}
  \/ error \in ConnectErrors
C2_ConnectRestartsFromTerminal ==
  [][(lastCall' = "connect" /\ TerminalCondition) => isConnecting']_vars

\* C3: the transcript never holds two assistant turns that are non-final at
\* the same time.
OpenAssistantTurns ==
  {k \in DOMAIN messages : messages[k].type = "assistant" /\ ~messages[k].isFinal}
C3_AtMostOneOpenAssistantTurn == Cardinality(OpenAssistantTurns) <= 1

\* C4: a delta event leaves every turn that is already final unchanged
\* (same content, still final).
C4_DeltaAfterFinalRejected ==
  [][lastCall' = "delta" =>
       \A k \in DOMAIN messages :
         messages[k].isFinal => messages'[k] = messages[k]]_vars

\* C5: a response-completed event that finds an assistant turn open and
\* non-final leaves that turn final with exactly the accumulated content.
TurnIndex(id) == CHOOSE k \in DOMAIN messages : messages[k].id = id
C5_FallbackFinalize ==
  [][(/\ lastCall' = "response.done"
      /\ currentAssistantMessageIdRef # Null
      /\ ~messages[TurnIndex(currentAssistantMessageIdRef)].isFinal)
     => LET k == TurnIndex(currentAssistantMessageIdRef)
        IN /\ messages'[k].isFinal
           /\ messages'[k].content = currentAssistantTextRef]_vars


\* C6: while a session object exists, connect() is a no-op: it changes no
\* state field, message, ref, object or connect() invocation; so at most one
\* transport is open and at most one negotiation runs on an open transport
\* (a negotiation whose transport disconnect() closed may still be suspended
\* next to it).
OpenTransports == {i \in Ids : pcState[i] \notin {"none", "closed"}}
LiveNegotiations == {i \in Ids : task[i] \in Suspended /\ pcState[i] # "closed"}
C6_ConnectIsNoOpWhileSessionExists ==
  /\ [](Cardinality(OpenTransports) <= 1 /\ Cardinality(LiveNegotiations) <= 1)
  /\ [][(lastCall' = "connect" /\ peerConnectionRef # Null) =>
          UNCHANGED <<stateVars, refVars, turnVars, objVars, recVars, ctlVars>>]_vars
\* connect() was called while the first session was still negotiating and returned
\* without doing anything
C6_Witness ==
  /\ lastCall = "connect" /\ trace = <<>>
  /\ peerConnectionRef # Null /\ isConnecting
  /\ LiveNegotiations # {}

\* C7: a connect() that resumes after its transport was closed under it
\* (disconnect() ran while it was suspended) changes no state field, no
\* resource reference and no transport or side channel.
StaleResume(i) == task[i] \in Suspended /\ pcState[i] = "closed" /\ task'[i] # task[i]
C7_StaleConnectChangesNothing ==
  [][(\E i \in Ids : StaleResume(i)) =>
       UNCHANGED <<stateVars, refVars, pcState, dcState>>]_vars

\* C8: when a step of connect() fails, teardown has run by the time the
\* error observer is notified.
C8_TeardownBeforeErrorSurfaced ==
  ConnectFailedStep =>
    \A k \in DOMAIN trace :
      trace[k] = "onError" => \E j \in 1..(k - 1) : trace[j] = "cleanup"

\* C9: when the transport reports failed, the error field is set and both the
\* error observer and the onDisconnected observer are notified.
C9_TransportFailedNotifiesObservers ==
  (lastCall = "onconnectionstatechange" /\ connectionState = "failed") =>
    /\ error # None
    /\ "onError" \in Range(trace)
    /\ "onDisconnected" \in Range(trace)

\* C10: after connect() failed on the microphone or on the signaling exchange
\* the session is neither connecting nor connected, has an error message, the
\* error observer was notified once, and every resource reference is null.
AcquisitionOrSignalingFailed ==
  /\ ConnectFailedStep
  /\ error \in {"Permission denied", "Failed to create session", "Failed to fetch"}
C10_FailedConnectLeavesFailedAndClean ==
  AcquisitionOrSignalingFailed =>
    /\ ~isConnecting /\ ~isConnected /\ error # None
    /\ Cardinality({k \in DOMAIN trace : trace[k] = "onError"}) = 1
    /\ AllRefsNull


\* C11: whenever interrupt() is called, the speaking flag is false as soon as
\* the call returns, and a cancellation message is sent upstream (best effort:
\* required here only when the side channel is open to carry it).
C11_InterruptClearsSpeaking ==
  lastCall = "interrupt" =>
    /\ ~isSpeaking
    /\ ChannelOpen => trace = <<"send response.cancel">>


\* C12: startRecording() called while the local or the remote stream is absent
\* returns false, creates no recorder and leaves the recording flag false;
\* called while a recording is active it returns true and creates no second
\* recorder.  (An exception would show as a call with no returned value.)
C12_StartRecordingGuards ==
  [][lastCall' = "startRecording" =>
       /\ (localStreamRef = Null \/ remoteStreamRef = Null) =>
            /\ returned' = Returned("startRecording", "false", <<>>)
            /\ "new MediaRecorder" \notin Range(trace')
            /\ mediaRecorderRef' = mediaRecorderRef /\ nextRec' = nextRec
            /\ ~isRecording'
       /\ (localStreamRef # Null /\ remoteStreamRef # Null /\ RecorderActive) =>
            /\ returned' = Returned("startRecording", "true", <<>>)
            /\ "new MediaRecorder" \notin Range(trace')
            /\ mediaRecorderRef' = mediaRecorderRef /\ nextRec' = nextRec]_vars


\* the first n chunks recorder r delivered, in delivery order
Delivered(r, n) == [k \in 1..n |-> Chunk(r, k)]

\* C13: stopRecording() resolves null when no recording is active; otherwise
\* it resolves once, only at the recorder's stop event, with every chunk that
\* recorder delivered up to the event in delivery order, and the recording
\* flag is then false.
C13_StopRecordingResolvesWithAllChunks ==
  [][/\ (lastCall' = "stopRecording" /\ ~RecorderActive) =>
          returned' = Returned("stopRecording", "null", <<>>)
     /\ (lastCall' = "stopRecording" /\ RecorderActive) =>
          returned' = NoReturn /\ mediaRecorderRef \in recOnstop'
     /\ \A r \in RecIds :
          (lastCall' = "recorderStopped" /\ r \in recOnstop /\ r \notin recOnstop') =>
            /\ returned'.op = "stopRecording" /\ returned'.value = "artifact"
            /\ returned'.chunks \in {Delivered(r, recDelivered[r]),
                                     Delivered(r, recDelivered[r] + 1)}
            /\ ~isRecording'
     /\ (returned'.value = "artifact" /\ returned' # returned) =>
          lastCall' = "recorderStopped"]_vars


C15_UnknownEventChangesNothing ==
  [][lastCall' = "default" =>
       /\ UNCHANGED <<stateVars, refVars, turnVars, objVars, recVars, ctlVars>>
       /\ trace' = <<>>]_vars
\* an unrecognized event arrived while a response was being spoken and its
\* turn was open
C15_Witness ==
  /\ lastCall = "default" /\ isSpeaking
  /\ currentAssistantMessageIdRef # Null /\ messages # <<>>


\* C16: a user-utterance-transcribed event with text T appends exactly one
\* turn, with role user, final, content exactly T and a fresh id, and changes
\* no other turn; in every reachable state every user turn is final.
C16_UserTurnAtomicAndFinal ==
  [][/\ (received'.type = "conversation.item.input_audio_transcription.completed"
           /\ received'.text # <<>>) =>
          /\ Len(messages') = Len(messages) + 1
          /\ SubSeq(messages', 1, Len(messages)) = messages
          /\ LET turn == messages'[Len(messages')]
             IN /\ turn.type = "user" /\ turn.isFinal
                /\ turn.content = received'.text
                /\ \A k \in DOMAIN messages : messages[k].id # turn.id
     /\ \A k \in DOMAIN messages' : messages'[k].type = "user" => messages'[k].isFinal
    ]_vars
\* the transcribed utterance was appended behind an assistant turn that is
\* still open
C16_Witness ==
  /\ received.type = "conversation.item.input_audio_transcription.completed"
  /\ Len(messages) = 2
  /\ messages[1].type = "assistant" /\ ~messages[1].isFinal
  /\ messages[2] = Message(2, "user", <<"hello there">>, TRUE)


\* C17: when the upstream endpoint answers the relay with a non-success status
\* S, the relay responds with status S and an error description that is not the
\* upstream body; when upstream succeeds, the relay returns the upstream answer
\* unmodified with the SDP content type.
C17_RelayPassesStatusAndAnswer ==
  relay.upstream.kind = "answered" =>
    IF relay.upstream.status < 200 \/ relay.upstream.status > 299
      THEN /\ relay.response.status = relay.upstream.status
           /\ relay.response.body = "Failed to create realtime session"
           /\ relay.response.body # relay.upstream.body
           /\ relay.response.contentType = "application/json"
      ELSE /\ relay.response.body = relay.upstream.body
           /\ relay.response.contentType = "application/sdp"
\* upstream refused the credentials and the relay answered 401 in its own words
C17_Witness ==
  /\ relay.upstream = Upstream("answered", 401, "upstream error detail")
  /\ relay.response.status = 401
  /\ relay.response.body = "Failed to create realtime session"


\* the place of a status in the lifecycle; cancelled is final
Rank(status) ==
  CASE status = "upcoming" -> 1
    [] status = "active" -> 2
    [] status = "processing" -> 3
    [] status = "completed" -> 4
    [] status = "cancelled" -> 5

\* C18: a meeting's status only moves forward along upcoming -> active ->
\* processing -> completed, or to cancelled; no operation moves it backwards.
C18_StatusOnlyMovesForward ==
  [][Rank(meetingStatus') >= Rank(meetingStatus)]_vars

\* C19: once the jobs of a call-ended event that carried a non-empty
\* transcript list have run, the transcript records are saved and a summary
\* has been generated from them, whatever the order the jobs ran in.  (A run in
\* which the language model's reply could not be parsed is left aside.)
C19_JobsSaveAndSummarize ==
  \A e \in DOMAIN events :
    (Len(events[e]) > 0 /\ jobs[e].save = "done"
       /\ jobs[e].summary \in {"done", "skipped"}) =>
      /\ \A k \in DOMAIN events[e] :
           \E j \in DOMAIN transcripts : transcripts[j] = events[e][k]
      /\ \E x \in DOMAIN summaries :
           /\ summaries[x].event = e
           /\ \A k \in DOMAIN events[e] :
                \E j \in DOMAIN summaries[x].from : summaries[x].from[j] = events[e][k]


\* C20: the records handed off for background processing are exactly the
\* finalized, non-blank turns of the message list as it stood when the call
\* was ended, in transcript order, each with its speaker, content and
\* timestamp; the list is read before disconnect() empties it.
C20_HandoffIsSnapshotOfFinalTurns ==
  endCall = "handedOff" =>
    LET handed == events[Len(events)]
        keptAt == {k \in DOMAIN endedMessages :
                     /\ endedMessages[k].isFinal
                     /\ \E j \in DOMAIN endedMessages[k].content :
                          endedMessages[k].content[j] # " "}
        \* the position in endedMessages of the n-th kept turn
        Before(k) == Cardinality({j \in keptAt : j < k})
    IN /\ Len(handed) = Cardinality(keptAt)
       /\ \A k \in keptAt :
            /\ handed[Before(k) + 1].content = endedMessages[k].content
            /\ handed[Before(k) + 1].timestamp = endedMessages[k].timestamp
            /\ handed[Before(k) + 1].speaker =
                 (IF endedMessages[k].type = "user" THEN "User" ELSE "AI Assistant")
\* a user turn was handed off and an assistant turn that was blank or not
\* final was left out, after disconnect() had emptied the message list
C20_Witness ==
  /\ endCall = "handedOff" /\ messages = <<>>
  /\ Len(endedMessages) = 2 /\ Len(events[Len(events)]) = 1
  /\ events[Len(events)][1].speaker = "User"


\* C21: an assistant-output-item-closed event that finds an assistant turn open
\* and non-final leaves that turn final with the accumulated content, whatever
\* that content is (the empty content when no delta arrived), and clears the
\* open-turn pointer.
C21_ItemClosedFinalizesOpenTurn ==
  [][(/\ received'.type = "response.output_item.done"
      /\ currentAssistantMessageIdRef # Null
      /\ ~messages[TurnIndex(currentAssistantMessageIdRef)].isFinal)
     => LET k == TurnIndex(currentAssistantMessageIdRef)
        IN /\ messages'[k].isFinal
           /\ messages'[k].content = currentAssistantTextRef
           /\ currentAssistantMessageIdRef' = Null]_vars


\* the place of a teardown call in the order the claim gives
TeardownRank(call) ==
  CASE call = "recorder.stop" -> 1
    [] call = "dataChannel.close" -> 2
    [] call = "peerConnection.close" -> 3
    [] call = "track.stop" -> 4
    [] OTHER -> 0
IsTeardownCall(call) == TeardownRank(call) > 0
\* the acquired stream of a connect() that fails right after getUserMedia is
\* stored in the ref before the failing call
StreamAtTeardown ==
  IF lastCall' = "getUserMediaSettled" /\ error' = "InvalidStateError"
    THEN CHOOSE i \in Ids : task[i] = "getUserMedia" /\ task'[i] = "failed"
    ELSE localStreamRef

\* the step ran cleanup: first thing in disconnect(), after the error
\* notification in the catch block of connect()
TeardownStep ==
  /\ trace' # <<>>
  /\ \/ trace'[1] = "cleanup"
     \/ Len(trace') > 1 /\ trace'[2] = "cleanup"

\* C22: a teardown stops the in-flight recorder before it closes the side
\* channel, closes the side channel before the transport and the transport
\* before it stops the local tracks: the steps it makes are those whose
\* resource is present, in that order, the others are skipped, and the
\* teardown runs to its end (the side channel, transport and stream
\* references are null after it) whatever was absent.
C22_TeardownOrder ==
  [][TeardownStep =>
       /\ SelectSeq(trace', IsTeardownCall) =
            (IF RecorderActive THEN <<"recorder.stop">> ELSE <<>>)
            \o (IF dataChannelRef # Null THEN <<"dataChannel.close">> ELSE <<>>)
            \o (IF peerConnectionRef # Null THEN <<"peerConnection.close">> ELSE <<>>)
            \o (IF StreamAtTeardown # Null THEN <<"track.stop">> ELSE <<>>)
       /\ dataChannelRef' = Null /\ peerConnectionRef' = Null
       /\ localStreamRef' = Null]_vars
\* disconnect() tore down a session with a recording in flight: all four steps
\* were made
C22_Witness ==
  /\ lastCall = "disconnect"
  /\ SelectSeq(trace, IsTeardownCall) =
       <<"recorder.stop", "dataChannel.close", "peerConnection.close", "track.stop">>


\* C23: the recorder-start retry terminates.  Within one run of the retry (from
\* the effect that arms it to the effect that replaces it) startRecording() is
\* attempted only while the run is live and fewer than 20 attempts have failed,
\* every failed attempt is counted and the count is never taken back, so at
\* most 20 attempts are made; an attempt that succeeded ends the run, and a run
\* that ended or was cancelled makes no further attempt.
C23_RetryTerminates ==
  [][/\ lastCall' = "startRecording" =>
          /\ timerId /\ attempts < maxAttempts
          /\ IF returned'.value = "true"
               THEN ~timerId' /\ attempts' = attempts
               ELSE attempts' = attempts + 1
     /\ lastCall' # "recordingEffect" =>
          /\ attempts' >= attempts
          /\ ~timerId => ~timerId' /\ lastCall' # "startRecording"
     /\ lastCall' = "recordingEffect" =>
          /\ attempts' = 0
          /\ ~(isConnected /\ ~isRecording) => ~timerId'
     /\ attempts' <= maxAttempts]_vars
\* the budget was used up: twenty attempts failed and the timer, fired once
\* more, made no attempt and was not armed again
C23_Witness ==
  /\ lastCall = "attemptStart" /\ attempts = maxAttempts /\ ~timerId
  /\ returned = NoReturn


\* the state of confirmEndCall after its disconnect() and before the page is left
EndedNotLeft == endCall \in {"ending", "processing", "handedOff", "failed"}
\* the step was a connect() that passed the guard: a transport was created and
\* the microphone requested
SessionStarted ==
  lastCall' = "connect" /\ nextId' = nextId + 1

\* C24: once confirmEndCall has run disconnect(), the page starts no new
\* session until it is left: no connect() call creates a transport or asks for
\* the microphone.
C24_NoSessionAfterEndCall ==
  [][EndedNotLeft => ~SessionStarted]_vars


\* C25: after a connect() attempt has failed (its error is on display) the page
\* does not start another attempt by itself, so that under a persistent failure
\* the attempts made without a user action stay bounded.
C25_NoAutoRetryAfterFailure ==
  [][SessionStarted => error \notin ConnectErrors]_vars


\* C26: whenever a live local microphone stream exists, its audio track is
\* enabled exactly when the microphone toggle is on.
C26_TrackEnabledIffMicOn ==
  (localStreamRef # Null /\ streamState[localStreamRef] = "live") =>
    ((localStreamRef \notin disabledTracks) <=> isMicOn)


\* C27: sendTextMessage() called with the side channel open sends the item and
\* the response request and appends one final user turn with the text; called
\* with the side channel not open it sends nothing and adds no turn; and the
\* acknowledgement of the item by the endpoint adds no second turn, so that
\* the text appears exactly once.
C27_TextAppearsOnce ==
  [][/\ (lastCall' = "sendTextMessage" /\ ChannelOpen) =>
          /\ trace' = <<"send conversation.item.create", "send response.create", "onMessage">>
          /\ Len(messages') = Len(messages) + 1
          /\ SubSeq(messages', 1, Len(messages)) = messages
          /\ LET turn == messages'[Len(messages')]
             IN /\ turn.type = "user" /\ turn.isFinal
                /\ turn.content = sentItems'[Len(sentItems')]
     /\ (lastCall' = "sendTextMessage" /\ ~ChannelOpen) =>
          /\ trace' = <<>>
          /\ UNCHANGED <<messages, sentItems>>
     /\ Len(sentItems') < Len(sentItems) => messages' = messages]_vars


\* C28: in every reachable state the session is not both connecting and
\* connected, and a connected session has a transport object.
C28_ConnectedExclusiveAndHasTransport ==
  /\ ~(isConnecting /\ isConnected)
  /\ isConnected => peerConnectionRef # Null
\* the second session is connected, the first one torn down
C28_Witness ==
  /\ isConnected /\ ~isConnecting
  /\ peerConnectionRef = 2 /\ pcState[2] = "connected" /\ pcState[1] = "closed"


\* C29: the completion job of a call-ended event marks the meeting completed
\* only after the transcript-save job and the summary job of that event have
\* finished.
C29_CompletedAfterSaveAndSummary ==
  \A e \in DOMAIN events :
    jobs[e].complete = "done" =>
      /\ jobs[e].save = "done"
      /\ jobs[e].summary # "pending"


\* C30: in every reachable state the recording flag is true exactly when a
\* recorder exists and is active.
C30_RecordingFlagIffRecorderActive ==
  isRecording <=> RecorderActive

====
